---- MODULE Spec2Model ----
(***************************************************************************)
(* Hybrid retrieval and answer synthesis of the RAG chatbot backend        *)
(* (src/backend/app.py): RAGSystemAPI and the HTTP handlers that drive it. *)
(*                                                                         *)
(* Numbers.  A raw score is an integer number of units of 2^-40; alpha is  *)
(* a number of tenths (0.6 is 6).  Normalized and fused scores are float32 *)
(* values as the source computes them, held as IEEE-754 bit patterns.      *)
(*                                                                         *)
(* Texts.  A chunk text is a run-length encoded string: a sequence of      *)
(* runs [c |-> character, n |-> count], no two adjacent runs of the same   *)
(* character.  A completion or an answer is a sequence of lines.           *)
(***************************************************************************)
EXTENDS Integers, Sequences, FiniteSets, TLC

\* ------------------------------------------------------------------ bounds
MaxChunks == 2      \* chunks in the corpus of the service
MaxCatalog == 3     \* chunks in a catalog handed to hybrid_retrieve
MaxAsks == 1        \* /api/ask requests in one behaviour
MaxSessions == 2    \* chat sessions ever created (AUTOINCREMENT ids)
MaxRoundTrip == 3   \* /api/ask requests in one behaviour of the cache round trip

\* --------------------------------------------------------- configuration
TOP_K_FAISS == 100
FINAL_TOP_K == 8
DEFAULT_ALPHA == 6              \* 0.6, in tenths
AlphaOne == 10                  \* 1.0, in tenths
MinScoreNum == 12               \* MIN_COMBINED_SCORE_TO_ANSWER = 12 / 100
MinScoreDen == 100
PreviewLen == 300               \* ["text"][:300]
PromptSources == 5              \* retrieved[:5]
Tolerance == 2                  \* 1e-12 of normalize_scores: between 1 and 2 units of 2^-40
Sentinel == "Data not found"

\* ------------------------------------------------------------- sequences
Min2(a, b) == IF a <= b THEN a ELSE b
SeqMin(arr) == CHOOSE x \in {arr[i] : i \in DOMAIN arr} :
                 \A i \in DOMAIN arr : x <= arr[i]
SeqMax(arr) == CHOOSE x \in {arr[i] : i \in DOMAIN arr} :
                 \A i \in DOMAIN arr : x >= arr[i]
\* seq[:k]
Prefix(seq, k) == SubSeq(seq, 1, Min2(k, Len(seq)))

\* ----------------------------------------------------------------- texts
Whitespace == {" ", "\n"}
Run(c, n) == [c |-> c, n |-> n]
RECURSIVE TLen(_)
TLen(t) == IF t = <<>> THEN 0 ELSE Head(t).n + TLen(Tail(t))
\* a + b
Cat(a, b) ==
  IF a = <<>> THEN b
  ELSE IF b = <<>> THEN a
  ELSE IF a[Len(a)].c = Head(b).c
       THEN SubSeq(a, 1, Len(a) - 1)
              \o <<Run(Head(b).c, a[Len(a)].n + Head(b).n)>> \o Tail(b)
       ELSE a \o b
\* t[:k]
RECURSIVE Slice(_, _)
Slice(t, k) ==
  IF k <= 0 \/ t = <<>> THEN <<>>
  ELSE IF Head(t).n <= k THEN Cat(<<Head(t)>>, Slice(Tail(t), k - Head(t).n))
       ELSE <<Run(Head(t).c, k)>>
\* t.replace('\n', ' ')
RECURSIVE ReplaceNewlines(_)
ReplaceNewlines(t) ==
  IF t = <<>> THEN <<>>
  ELSE Cat(<<Run(IF Head(t).c = "\n" THEN " " ELSE Head(t).c, Head(t).n)>>,
           ReplaceNewlines(Tail(t)))
\* t.strip()
RECURSIVE LStrip(_)
LStrip(t) == IF t # <<>> /\ Head(t).c \in Whitespace THEN LStrip(Tail(t)) ELSE t
RECURSIVE RStrip(_)
RStrip(t) == IF t # <<>> /\ t[Len(t)].c \in Whitespace
             THEN RStrip(SubSeq(t, 1, Len(t) - 1)) ELSE t
Strip(t) == RStrip(LStrip(t))
Ellipsis == <<Run(".", 3)>>

\* The chunk texts of the corpus: longer than the preview, one with a line
\* break and a leading blank, a short one, and one of exactly the preview length.
LongText == <<Run("a", PreviewLen), Run("b", 2)>>
BrokenText == <<Run(" ", 1), Run("a", 1), Run("\n", 1), Run("b", PreviewLen)>>
ShortText == <<Run("a", 2)>>
ExactText == <<Run("a", PreviewLen)>>

\* --------------------------------------------- single-precision arithmetic
\* The scores of hybrid_retrieve are float32 arrays.  A non-negative float32
\* is held as its IEEE-754 bit pattern, whose order as an integer is the order
\* of the values: 0 is 0.0, and b > 0 is Significand(b) * 2^Exponent(b).
\* Subnormal values, infinities and NaN do not arise from the scores here.
Significand(x) == IF x = 0 THEN 0 ELSE 2^23 + (x % 2^23)
Exponent(x) == (x \div 2^23) - 150
Pack(m, e) == IF m = 2^24 THEN (e + 151) * 2^23 ELSE (e + 150) * 2^23 + (m - 2^23)
\* round to nearest, ties to even: q and the remainder r out of d
RoundEven(q, r, d) == IF 2 * r > d \/ (2 * r = d /\ q % 2 = 1) THEN q + 1 ELSE q
RoundUp(q, r, d) == IF r > 0 THEN q + 1 ELSE q
\* n / d as n' / d' * 2^k with 1 <= n' / d' < 2
RECURSIVE Scaled(_, _, _)
Scaled(n, d, k) ==
  IF n < d THEN Scaled(2 * n, d, k - 1)
  ELSE IF n >= 2 * d THEN Scaled(n, 2 * d, k + 1)
  ELSE [n |-> n, d |-> d, k |-> k]
\* The float32 nearest to n / d, and the least float32 not below n / d (n and
\* d below 128; the weights and scores converted here are never negative)
Float32(n, d) ==
  IF n <= 0 THEN 0
  ELSE LET t == Scaled(n, d, 0)
       IN  Pack(RoundEven((t.n * 2^23) \div t.d, (t.n * 2^23) % t.d, t.d), t.k - 23)
Ceil32(n, d) ==
  IF n <= 0 THEN 0
  ELSE LET t == Scaled(n, d, 0)
       IN  Pack(RoundUp((t.n * 2^23) \div t.d, (t.n * 2^23) % t.d, t.d), t.k - 23)
\* x * y in float32: the 48-bit product of the significands, hi * 2^24 + lo,
\* rounded to 24 bits
Mul32(x, y) ==
  IF x = 0 \/ y = 0 THEN 0
  ELSE LET a == Significand(x) \div 2^12
           b == Significand(x) % 2^12
           c == Significand(y) \div 2^12
           d == Significand(y) % 2^12
           mid == a * d + b * c
           low == b * d + (mid % 2^12) * 2^12
           hi == a * c + (mid \div 2^12) + (low \div 2^24)
           lo == low % 2^24
           e == Exponent(x) + Exponent(y)
       IN  IF hi >= 2^23
           THEN Pack(RoundEven(hi, lo, 2^24), e + 24)
           ELSE Pack(RoundEven(2 * hi + (lo \div 2^23), lo % 2^23, 2^23), e + 23)
\* x + y in float32: the smaller operand is shifted to the exponent of the
\* larger one with three more bits, the last of them sticky
Add32(x, y) ==
  IF x = 0 THEN y
  ELSE IF y = 0 THEN x
  ELSE LET big == IF x >= y THEN x ELSE y
           small == IF x >= y THEN y ELSE x
           sh == Exponent(big) - Exponent(small)
           m8 == Significand(small) * 8
           shifted == IF sh > 27 THEN 0 ELSE m8 \div 2^sh
           sticky == IF sh > 27 THEN TRUE ELSE m8 % 2^sh # 0
           s == Significand(big) * 8
                  + (IF sticky THEN shifted - (shifted % 2) + 1 ELSE shifted)
       IN  IF s >= 2^27
           THEN Pack(RoundEven(s \div 16, s % 16, 16), Exponent(big) + 1)
           ELSE Pack(RoundEven(s \div 8, s % 8, 8), Exponent(big))

\* ------------------------------------------------------ hybrid_retrieve
\* The text preview of a result: chunks[idx]["text"][:300] + "..."
Preview(text) == Cat(Slice(text, PreviewLen), Ellipsis)

\* normalize_scores.  Raw scores are counted in units of 2^-40 (9.1e-13): two
\* scores one unit apart differ and are still within the 1e-12 of line 161,
\* two units apart they are not.  Such scores and their differences are exact
\* in float32, so (arr - mn) / (mx - mn) is the float32 nearest to the quotient.
\* if abs(mx - mn) < 1e-12
IsFlatExact(arr) == SeqMax(arr) = SeqMin(arr)
IsFlat(arr) == SeqMax(arr) - SeqMin(arr) < Tolerance
normalize_scores(arr) ==
  IF Len(arr) = 0 THEN arr
  ELSE IF IsFlat(arr) THEN [i \in DOMAIN arr |-> 0]
  ELSE [i \in DOMAIN arr |->
          Float32(arr[i] - SeqMin(arr), SeqMax(arr) - SeqMin(arr))]

\* faiss_index.search(q_emb, k): the k positions of highest inner product
\* (every position when k is the index size).
Search(dense, k) ==
  CHOOSE ids \in SUBSET (DOMAIN dense) :
    /\ Cardinality(ids) = k
    /\ \A i \in ids, j \in (DOMAIN dense) \ ids :
         dense[i] > dense[j] \/ (dense[i] = dense[j] /\ i < j)
\* faiss_scores: zeros, with the scores of the positions found
FaissScores(dense, top_k_faiss) ==
  IF Len(dense) = 0 THEN dense
  ELSE LET ids == Search(dense, Min2(top_k_faiss, Len(dense)))
       IN  [i \in DOMAIN dense |-> IF i \in ids THEN dense[i] ELSE 0]

\* combined = self.alpha * f_norm + (1.0 - self.alpha) * b_norm.  The arrays
\* are float32, so each weight is taken to float32 (1.0 - self.alpha after the
\* subtraction) and the products and the sum are float32 operations; a1 and
\* a2 are the two reads of self.alpha.
Fuse(a1, a2, f_norm, b_norm) ==
  Add32(Mul32(Float32(a1, AlphaOne), f_norm),
        Mul32(Float32(AlphaOne - a2, AlphaOne), b_norm))
Combined(a1, a2, fs, bm) ==
  LET fn == normalize_scores(fs)
      bn == normalize_scores(bm)
  IN  [i \in DOMAIN fs |-> Fuse(a1, a2, fn[i], bn[i])]

\* np.argsort(keys): every ordering of the positions by ascending key.  The
\* default kind is an introsort (a vectorised quicksort on some builds), not a
\* stable sort: positions of equal key come in any order.
RECURSIVE argsort_from(_, _)
argsort_from(keys, left) ==
  IF left = {} THEN {<<>>}
  ELSE UNION { { <<i>> \o rest : rest \in argsort_from(keys, left \ {i}) } :
               i \in {j \in left : \A k \in left : keys[j] <= keys[k]} }
argsortDescending(keys) == argsort_from([i \in DOMAIN keys |-> -keys[i]], DOMAIN keys)
argsort(keys) == argsort_from(keys, DOMAIN keys)

\* if combined[idx] <= 0: continue
KeepNonNegative(c) == c >= 0
Keep(c) == c > 0

\* sorted(results, key=score, reverse=True): stable, descending
RECURSIVE InsertDesc(_, _)
InsertDesc(sorted, r) ==
  IF sorted = <<>> THEN <<r>>
  ELSE IF Head(sorted).score >= r.score
       THEN <<Head(sorted)>> \o InsertDesc(Tail(sorted), r)
       ELSE <<r>> \o sorted
RECURSIVE SortedDesc(_)
SortedDesc(results) ==
  IF results = <<>> THEN <<>>
  ELSE InsertDesc(SortedDesc(SubSeq(results, 1, Len(results) - 1)),
                  results[Len(results)])

\* One entry of the list: chunk_info
ChunkInfo(chs, idx, score, faiss_score, bm25_score) ==
  [idx |-> idx,
   table |-> chs[idx].table,
   chunk_id |-> chs[idx].chunk_id,
   page |-> chs[idx].page_number,
   text |-> Preview(chs[idx].text),
   score |-> score,
   faiss_score |-> faiss_score,
   bm25_score |-> bm25_score]
\* for idx in top_idxs: ... results.append(chunk_info)
RECURSIVE Collect(_, _, _)
Collect(top_idxs, cmb, info) ==
  IF top_idxs = <<>> THEN <<>>
  ELSE IF ~Keep(cmb[Head(top_idxs)]) THEN Collect(Tail(top_idxs), cmb, info)
       ELSE <<info[Head(top_idxs)]>> \o Collect(Tail(top_idxs), cmb, info)

\* hybrid_retrieve: the lists it can return, one per outcome of argsort.
\* dense[i] is the inner product of chunk i with the query embedding, bm25[i]
\* its BM25 score; a1, a2 are the values read from self.alpha.
hybrid_retrieve(chs, a1, a2, dense, bm25, top_k_faiss, final_k) ==
  LET fs == FaissScores(dense, top_k_faiss)
      fn == normalize_scores(fs)
      bn == normalize_scores(bm25)
      cmb == Combined(a1, a2, fs, bm25)
      info == [i \in DOMAIN cmb |-> ChunkInfo(chs, i, cmb[i], fn[i], bn[i])]
  IN  { SortedDesc(Collect(Prefix(top_idxs, final_k), cmb, info)) :
        top_idxs \in argsort([i \in DOMAIN cmb |-> -cmb[i]]) }

\* ------------------------------------------------------------ the answer
\* A line of a completion or of an answer.  table, page and err are the values
\* an f-string put into it ("-" and 0 where it has none).
Line(s) == [s |-> s, table |-> "-", page |-> 0, err |-> "-"]
\* f"{answer}\n\n*Based on information from: {table}, Page {page}*"
AttributionLine(table, page) ==
  [s |-> "*Based on information from: {table}, Page {page}*",
   table |-> table, page |-> page, err |-> "-"]
\* f"Error generating answer: {str(e)}", e = RuntimeError(f"Ollama call error: {e}")
ErrorLine(e) ==
  [s |-> "Error generating answer: Ollama call error: {e}",
   table |-> "-", page |-> 0, err |-> e]
SentinelText == <<Line(Sentinel)>>
Blank(line) == line.s \in {"", " "}
\* answer.strip(), on lines
RECURSIVE LStripLines(_)
LStripLines(t) == IF t # <<>> /\ Blank(Head(t)) THEN LStripLines(Tail(t)) ELSE t
RECURSIVE RStripLines(_)
RStripLines(t) == IF t # <<>> /\ Blank(t[Len(t)])
                  THEN RStripLines(SubSeq(t, 1, Len(t) - 1)) ELSE t
StripLines(t) == RStripLines(LStripLines(t))
\* line_lower.startswith(('thinking:', ...)) or 'based on the context' early in it
IsReasoning(line) ==
  line.s \in {"Thinking: let's see", "Based on the context, it is 42"}
\* "[Source" in answer
HasCitation(t) == \E i \in DOMAIN t : t[i].s \in {"The answer is 42 [Source 1]"}
RECURSIVE FilterLines(_)
FilterLines(t) ==
  IF t = <<>> THEN <<>>
  ELSE IF IsReasoning(Head(t)) THEN FilterLines(Tail(t))
       ELSE <<Head(t)>> \o FilterLines(Tail(t))
\* ask_question, lines 369-398: the answer made of a completion
PostProcess(raw, retrieved) ==
  LET answer == StripLines(FilterLines(StripLines(raw)))
      cited ==
        IF answer # <<>> /\ answer # SentinelText
             /\ ~HasCitation(answer) /\ retrieved # <<>>
        THEN answer \o <<Line(""), AttributionLine(retrieved[1].table, retrieved[1].page)>>
        ELSE answer
  IN  IF cited = <<>> THEN SentinelText ELSE cited

\* What the ollama process does with a prompt: it exits 0 with some stdout and
\* stderr, or subprocess.run raises (non-zero exit, timeout, I/O failure).
Exited(out, err) == [raises |-> "-", stdout |-> out, stderr |-> err]
Raises(e) == [raises |-> e, stdout |-> <<>>, stderr |-> <<>>]
ProcessOutcomes ==
  { Exited(<<Line("Thinking: let's see"), Line("The answer is 42 [Source 1]")>>, <<>>),
    Exited(<<Line("The answer is 42"), Line("")>>, <<>>),
    Exited(<<>>, <<>>),
    Raises("CalledProcessError"),
    Raises("TimeoutExpired") }
\* call_ollama: the text returned, or the RuntimeError raised
call_ollama(outcome) ==
  IF outcome.raises # "-" THEN [raised |-> TRUE, value |-> <<>>, error |-> outcome.raises]
  ELSE LET out == StripLines(outcome.stdout)
       IN  [raised |-> FALSE,
            value |-> IF out = <<>> THEN StripLines(outcome.stderr) ELSE out,
            error |-> "-"]
\* try: answer = post-processed completion; except Exception as e: the error text
GenerateEmptyOnError(completion, retrieved) ==
  IF completion.raised THEN <<>> ELSE PostProcess(completion.value, retrieved)
Generate(completion, retrieved) ==
  IF completion.raised THEN <<ErrorLine(completion.error)>>
  ELSE PostProcess(completion.value, retrieved)

\* --------------------------------------------------------------- the gate
\* not retrieved or retrieved[0]["score"] < MIN_COMBINED_SCORE_TO_ANSWER
\* (a float32 is below 0.12 when it is below the least float32 that is not)
BelowMin(score) == score < Ceil32(MinScoreNum, MinScoreDen)
GateOnlyEmpty(retrieved) == retrieved = <<>>
Gate(retrieved) == IF retrieved = <<>> THEN TRUE ELSE BelowMin(retrieved[1].score)

\* ---------------------------------------------------------------- prompt
\* The prompt is the context and the question.  ask_question also reads the
\* session's last three messages into history_text, which the prompt never
\* includes.
\* chunks_with_sources: one entry per result of retrieved[:5]
ContextOfFullText(chs, r) == Strip(ReplaceNewlines(chs[r.idx].text))
ContextText(chs, r) == Strip(ReplaceNewlines(r.text))
BuildContext(chs, retrieved) ==
  LET top == Prefix(retrieved, PromptSources)
  IN  [i \in DOMAIN top |->
         [source |-> i, table |-> top[i].table, page |-> top[i].page,
          content |-> ContextText(chs, top[i])]]

\* ----------------------------------------------------------- the state
Questions == {"q1", "q2"}
DenseScores == {0, 2}
LexicalScores == {0, 2}
AlphaRequests == {-1, 1, 10, 15}
\* The session ids a request can name: of a session or not (no handler checks)
SessionIds == 1..MaxSessions

VARIABLES
  chunks,        \* self.chunks, loaded once
  rag_system,    \* the global: "ready" once constructed, "none" when startup raised
  alpha,         \* self.alpha, in tenths
  cache,         \* question_cache: question -> answer, for the questions saved
  messages,      \* chat_messages, in id order
  sessions,      \* chat_sessions: the session ids
  next_session,  \* the next AUTOINCREMENT session id
  result,        \* the last handler's call and response
  asked,         \* per question: what its calls did so far
  n_asks,        \* /api/ask requests so far
  pending,       \* requests received and not yet run by the event loop
  running,       \* the handler the event loop is running, and its locals
  call,          \* a call of hybrid_retrieve on its own: the arguments
  returned       \* and the list it returned

vars == <<chunks, rag_system, alpha, cache, messages, sessions, next_session,
          result, asked, n_asks, pending, running, call, returned>>

\* load_chunks: the chunks of the content tables, in table then row order
Chunk(i, text) ==
  [table |-> "docs", chunk_id |-> i, page_number |-> 1, text |-> text]
\* The corpora of the service: the first n rows of a content table, in one of
\* two row orders, so that texts longer than the preview and texts that fit
\* in it are both loaded.
RowTexts == <<BrokenText, ShortText, LongText, ExactText>>
TableRows == {RowTexts, <<ExactText, LongText, BrokenText, ShortText>>}
Corpora ==
  { [i \in 1..n |-> Chunk(i, rows[((i - 1) % Len(rows)) + 1])] :
    n \in 0..MaxChunks, rows \in TableRows }
\* build_bm25_from_chunks: BM25Okapi(tokenized) computes the average document
\* length, num_doc / corpus_size, and raises ZeroDivisionError on no documents.
build_bm25_from_chunks(chs) == IF Len(chs) = 0 THEN "ZeroDivisionError" ELSE "ok"
\* RAGSystemAPI() in startup_event: an exception of the constructor is raised
\* again and the application does not start.
Construct(chs) == IF build_bm25_from_chunks(chs) = "ok" THEN "ready" ELSE "none"

NoResult ==
  [op |-> "none", status |-> 0, question |-> "-", session_id |-> 0,
   use_cache |-> FALSE, path |-> "-", answer |-> <<>>, sources |-> <<>>,
   from_cache |-> FALSE, retrieved |-> <<>>, context |-> <<>>,
   ollama_called |-> FALSE, alpha_left |-> 0, alpha_right |-> 0,
   alpha_before |-> 0, value |-> 0, overlapped |-> FALSE]
Idle == [pc |-> "idle", sid |-> 0, question |-> "-", use_cache |-> FALSE,
         dense |-> <<>>, bm25 |-> <<>>, alpha_left |-> 0, alpha_right |-> 0,
         overlapped |-> FALSE]
NoCall == [stage |-> "none", dense |-> <<>>, bm25 |-> <<>>, final_k |-> 0]
NeverAsked ==
  [cached_asks |-> 0, bypassed |-> FALSE, retrievals |-> 0, generations |-> 0,
   first_answer |-> <<>>, first_path |-> "-"]

\* The management tables are created IF NOT EXISTS in the database file of the
\* chunks: a new file starts them empty, a file the service ran on before
\* keeps its rows and its AUTOINCREMENT counter.
FreshStore ==
  /\ cache = <<>>
  /\ messages = <<>>
  /\ sessions = {}
  /\ next_session = 1
\* the rows an earlier run left: q1 asked in session 1 and refused by the gate
UsedStore ==
  /\ cache = [q \in {"q1"} |-> SentinelText]
  /\ messages = <<[session_id |-> 1, role |-> "user", message |-> <<Line("q1")>>],
                  [session_id |-> 1, role |-> "assistant", message |-> SentinelText]>>
  /\ sessions = {1}
  /\ next_session = 2
Init ==
  /\ chunks \in Corpora
  /\ rag_system = Construct(chunks)
  /\ alpha = DEFAULT_ALPHA
  /\ (FreshStore \/ UsedStore)
  /\ result = NoResult
  /\ asked = [q \in Questions |-> NeverAsked]
  /\ n_asks = 0
  /\ pending = {}
  /\ running = Idle
  /\ call = NoCall
  /\ returned = <<>>

\* ------------------------------------------------------------ the store
Message(session_id, role, message) ==
  [session_id |-> session_id, role |-> role, message |-> message]
\* append_message
append_nothing(log, session_id, role, message) == log
append_message(log, session_id, role, message) ==
  Append(log, Message(session_id, role, message))
\* check_cache: row[0] if row else None
check_cache(question) ==
  IF question \in DOMAIN cache
  THEN [found |-> TRUE, answer |-> cache[question]]
  ELSE [found |-> FALSE, answer |-> <<>>]
\* if cached:
Truthy(cached) == cached.found /\ cached.answer # <<>>
\* save_cache: INSERT OR REPLACE
save_nothing(question, answer) == cache
save_cache(question, answer) ==
  [q \in DOMAIN cache \cup {question} |->
     IF q = question THEN answer ELSE cache[q]]

\* --------------------------------------------------------- ask_question
\* RAGSystemAPI.ask_question with the list hybrid_retrieve returned and what
\* the ollama process then did: the response and the path taken.
ask_question(question, use_cache, retrieved, outcome) ==
  LET cached == check_cache(question)
  IN  IF use_cache /\ Truthy(cached)
      THEN [path |-> "hit", answer |-> cached.answer, sources |-> <<>>,
            from_cache |-> TRUE, retrieved |-> <<>>, context |-> <<>>,
            ollama_called |-> FALSE, saves |-> FALSE]
      ELSE IF Gate(retrieved)
      THEN [path |-> "gated", answer |-> SentinelText, sources |-> <<>>,
            from_cache |-> FALSE, retrieved |-> retrieved, context |-> <<>>,
            ollama_called |-> FALSE, saves |-> TRUE]
      ELSE LET completion == call_ollama(outcome)
           IN  [path |-> IF completion.raised THEN "failed" ELSE "synthesized",
                answer |-> Generate(completion, retrieved),
                sources |-> Prefix(retrieved, PromptSources),
                from_cache |-> FALSE, retrieved |-> retrieved,
                context |-> BuildContext(chunks, retrieved),
                ollama_called |-> TRUE, saves |-> TRUE]

Tally(t, use_cache, r) ==
  [cached_asks |-> t.cached_asks + (IF use_cache THEN 1 ELSE 0),
   bypassed |-> t.bypassed \/ ~use_cache,
   retrievals |-> t.retrievals + (IF r.path = "hit" THEN 0 ELSE 1),
   generations |-> t.generations + (IF r.ollama_called THEN 1 ELSE 0),
   first_answer |-> IF use_cache /\ t.cached_asks = 0 THEN r.answer ELSE t.first_answer,
   first_path |-> IF use_cache /\ t.cached_asks = 0 THEN r.path ELSE t.first_path]

\* The effect of a completed ask_question call r on the stores, and the response
Respond(sid, q, use_cache, r, a1, a2, overlapped) ==
  LET session_id == IF sid = 0 THEN next_session ELSE sid
  IN  /\ n_asks' = n_asks + 1
      /\ sessions' = IF sid = 0 THEN sessions \cup {next_session} ELSE sessions
      /\ next_session' = IF sid = 0 THEN next_session + 1 ELSE next_session
      /\ messages' = append_message(
                       append_message(messages, session_id, "user", <<Line(q)>>),
                       session_id, "assistant", r.answer)
      /\ cache' = IF r.saves THEN save_cache(q, r.answer) ELSE cache
      /\ asked' = [asked EXCEPT ![q] = Tally(@, use_cache, r)]
      /\ result' = [NoResult EXCEPT
                      !.op = "ask", !.status = 200, !.question = q,
                      !.session_id = session_id, !.use_cache = use_cache,
                      !.path = r.path, !.answer = r.answer,
                      !.sources = r.sources, !.from_cache = r.from_cache,
                      !.retrieved = r.retrieved, !.context = r.context,
                      !.ollama_called = r.ollama_called,
                      !.alpha_left = IF r.path = "hit" THEN 0 ELSE a1,
                      !.alpha_right = IF r.path = "hit" THEN 0 ELSE a2,
                      !.alpha_before = alpha, !.overlapped = overlapped]
      /\ UNCHANGED <<chunks, rag_system, alpha, call, returned>>

\* POST /api/ask: the session is created when the request names none.  The
\* scores of the query and the behaviour of the ollama process are drawn only
\* where the call reads them.
Answer(sid, q, use_cache) ==
  /\ \/ /\ use_cache /\ Truthy(check_cache(q))
        /\ Respond(sid, q, use_cache,
                   ask_question(q, use_cache, <<>>, Exited(<<>>, <<>>)),
                   alpha, alpha, FALSE)
     \/ /\ ~(use_cache /\ Truthy(check_cache(q)))
        /\ \E dense \in [DOMAIN chunks -> DenseScores],
              bm25 \in [DOMAIN chunks -> LexicalScores] :
             \E retrieved \in hybrid_retrieve(chunks, alpha, alpha, dense, bm25,
                                              TOP_K_FAISS, FINAL_TOP_K) :
               \/ /\ Gate(retrieved)
                  /\ Respond(sid, q, use_cache,
                             ask_question(q, use_cache, retrieved, Exited(<<>>, <<>>)),
                             alpha, alpha, FALSE)
               \/ /\ ~Gate(retrieved)
                  /\ \E outcome \in ProcessOutcomes :
                       Respond(sid, q, use_cache,
                               ask_question(q, use_cache, retrieved, outcome),
                               alpha, alpha, FALSE)
  /\ UNCHANGED <<pending, running>>
AskQuestion ==
  \E sid \in {0} \cup SessionIds, q \in Questions, use_cache \in BOOLEAN :
    /\ rag_system = "ready"
    /\ n_asks < MaxAsks
    /\ sid = 0 => next_session <= MaxSessions
    /\ Answer(sid, q, use_cache)

\* PUT /api/alpha/{alpha_value}
\* if 0.0 <= alpha_value <= 1.0
InRangeNoUpper(alpha_value) == 0 <= alpha_value
InRange(alpha_value) == 0 <= alpha_value /\ alpha_value <= AlphaOne
\* set_alpha: the live weight and the response status it leaves
set_alpha(alpha_value) ==
  IF InRange(alpha_value)
  THEN [alpha |-> alpha_value, status |-> 200]
  ELSE [alpha |-> alpha, status |-> 400]
SetAlphaResponse(alpha_value) ==
  [NoResult EXCEPT !.op = "set_alpha", !.status = set_alpha(alpha_value).status,
                   !.value = alpha_value, !.alpha_before = alpha]
SetAlpha ==
  \E alpha_value \in AlphaRequests :
    /\ rag_system = "ready"
    /\ alpha' = set_alpha(alpha_value).alpha
    /\ result' = SetAlphaResponse(alpha_value)
    /\ UNCHANGED <<chunks, rag_system, cache, messages, sessions, next_session,
                   asked, n_asks, pending, running, call, returned>>

\* POST /api/sessions
CreateSession ==
  /\ rag_system = "ready"
  /\ next_session <= MaxSessions
  /\ sessions' = sessions \cup {next_session}
  /\ next_session' = next_session + 1
  /\ result' = [NoResult EXCEPT !.op = "create_session", !.status = 200,
                                !.session_id = next_session, !.alpha_before = alpha]
  /\ UNCHANGED <<chunks, rag_system, alpha, cache, messages, asked, n_asks,
                 pending, running, call, returned>>

\* DELETE /api/sessions/{session_id}
DeleteSession ==
  \E session_id \in SessionIds :
    /\ rag_system = "ready"
    /\ messages' = SelectSeq(messages, LAMBDA m : m.session_id # session_id)
    /\ sessions' = sessions \ {session_id}
    /\ result' = [NoResult EXCEPT !.op = "delete_session", !.status = 200,
                                  !.session_id = session_id, !.alpha_before = alpha]
    /\ UNCHANGED <<chunks, rag_system, alpha, cache, next_session, asked, n_asks,
                   pending, running, call, returned>>

\* A question sent to a service whose startup raised: there is nothing to answer it.
AskNoService ==
  \E q \in Questions :
    /\ rag_system = "none"
    /\ result.op = "none"
    /\ result' = [NoResult EXCEPT !.op = "ask", !.status = 0, !.question = q,
                                  !.path = "no service"]
    /\ UNCHANGED <<chunks, rag_system, alpha, cache, messages, sessions,
                   next_session, asked, n_asks, pending, running, call, returned>>

Next == AskQuestion \/ SetAlpha \/ CreateSession \/ DeleteSession \/ AskNoService
Spec == Init /\ [][Next]_vars

\* ------------------------------------------------- the cache round trip
\* One client's conversation: its questions, each in the session its first
\* request created, and weight changes, for more requests than in Spec, so
\* that a question is asked, another one is asked, and the first is asked again.
AskAgain ==
  \E sid \in (IF sessions = {} THEN {0} ELSE sessions),
     q \in Questions, use_cache \in BOOLEAN :
    /\ rag_system = "ready"
    /\ n_asks < MaxRoundTrip
    /\ Answer(sid, q, use_cache)
NextCache == AskAgain \/ SetAlpha \/ AskNoService
SpecCache == Init /\ [][NextCache]_vars

\* ------------------------------------------------------ the event loop
\* The handlers are coroutines (async def) that never await: the event loop
\* runs one at a time, each to its end, while other requests wait.  Here the
\* ask handler is taken step by step through the fusion of hybrid_retrieve,
\* which reads self.alpha twice, with /api/alpha requests arriving meanwhile.
AskRequest(q, use_cache) ==
  [kind |-> "ask", question |-> q, use_cache |-> use_cache, value |-> 0]
AlphaRequest(v) ==
  [kind |-> "set_alpha", question |-> "-", use_cache |-> FALSE, value |-> v]
LoopRequests ==
  {AskRequest("q1", TRUE)} \cup {AlphaRequest(v) : v \in AlphaRequests}
\* Whether the event loop can start a handler: none is running.
CanRunAnyTime(frame) == TRUE
CanRun(frame) == frame.pc = "idle"
\* An in-range /api/alpha request for another weight is waiting
Overlaps == \E req \in pending :
              req.kind = "set_alpha" /\ InRange(req.value) /\ req.value # alpha

Receive ==
  \E req \in LoopRequests \ pending :
    /\ rag_system = "ready"
    /\ req.kind = "ask" => n_asks < MaxAsks
    /\ pending' = pending \cup {req}
    /\ UNCHANGED <<chunks, rag_system, alpha, cache, messages, sessions,
                   next_session, result, asked, n_asks, running, call, returned>>

\* The handler up to hybrid_retrieve's scores: the request names no session, so
\* one is created first; a cache hit answers at once
BeginAsk ==
  \E req \in pending :
    /\ req.kind = "ask"
    /\ CanRun(running)
    /\ n_asks < MaxAsks
    /\ next_session <= MaxSessions
    /\ pending' = pending \ {req}
    /\ \/ /\ req.use_cache /\ Truthy(check_cache(req.question))
          /\ Respond(0, req.question, req.use_cache,
                     ask_question(req.question, req.use_cache, <<>>, Exited(<<>>, <<>>)),
                     alpha, alpha, FALSE)
          /\ UNCHANGED running
       \/ /\ ~(req.use_cache /\ Truthy(check_cache(req.question)))
          /\ \E dense \in [DOMAIN chunks -> DenseScores],
                bm25 \in [DOMAIN chunks -> LexicalScores] :
               running' = [Idle EXCEPT !.pc = "scored", !.question = req.question,
                                       !.use_cache = req.use_cache,
                                       !.dense = dense, !.bm25 = bm25,
                                       !.sid = next_session]
          /\ sessions' = sessions \cup {next_session}
          /\ next_session' = next_session + 1
          /\ UNCHANGED <<chunks, rag_system, alpha, cache, messages,
                         result, asked, n_asks, call, returned>>

\* self.alpha * f_norm: the first read of self.alpha
ReadAlphaLeft ==
  /\ running.pc = "scored"
  /\ running' = [running EXCEPT !.pc = "left", !.alpha_left = alpha,
                                !.overlapped = Overlaps]
  /\ UNCHANGED <<chunks, rag_system, alpha, cache, messages, sessions,
                 next_session, result, asked, n_asks, pending, call, returned>>

\* (1.0 - self.alpha) * b_norm: the second read
ReadAlphaRight ==
  /\ running.pc = "left"
  /\ running' = [running EXCEPT !.pc = "fused", !.alpha_right = alpha,
                                !.overlapped = running.overlapped \/ Overlaps]
  /\ UNCHANGED <<chunks, rag_system, alpha, cache, messages, sessions,
                 next_session, result, asked, n_asks, pending, call, returned>>

\* the rest of hybrid_retrieve and of ask_question
FinishAsk ==
  /\ running.pc = "fused"
  /\ \E retrieved \in hybrid_retrieve(chunks, running.alpha_left, running.alpha_right,
                                      running.dense, running.bm25,
                                      TOP_K_FAISS, FINAL_TOP_K) :
       \/ /\ Gate(retrieved)
          /\ Respond(running.sid, running.question, running.use_cache,
                     ask_question(running.question, running.use_cache, retrieved,
                                  Exited(<<>>, <<>>)),
                     running.alpha_left, running.alpha_right, running.overlapped)
       \/ /\ ~Gate(retrieved)
          /\ \E outcome \in ProcessOutcomes :
               Respond(running.sid, running.question, running.use_cache,
                       ask_question(running.question, running.use_cache, retrieved,
                                    outcome),
                       running.alpha_left, running.alpha_right, running.overlapped)
  /\ running' = Idle
  /\ UNCHANGED pending

RunSetAlpha ==
  \E req \in pending :
    /\ req.kind = "set_alpha"
    /\ CanRun(running)
    /\ pending' = pending \ {req}
    /\ alpha' = set_alpha(req.value).alpha
    /\ result' = SetAlphaResponse(req.value)
    /\ UNCHANGED <<chunks, rag_system, cache, messages, sessions, next_session,
                   asked, n_asks, running, call, returned>>

NextLoop == Receive \/ BeginAsk \/ ReadAlphaLeft \/ ReadAlphaRight \/ FinishAsk
              \/ RunSetAlpha
SpecLoop == Init /\ [][NextLoop]_vars

\* ------------------------------------------- hybrid_retrieve on its own
\* A catalog of n chunks, an alpha the service can hold, the raw scores of a
\* query and a final_k: the arguments of one call.  Neighbouring raw scores
\* differ by less than the tolerance of normalize_scores, the others by it.
DenseRaw == {-1, 0, 1}
LexicalRaw == {0, 1, 2}
Alphas == 0..AlphaOne
FinalKs == {1, 2, FINAL_TOP_K}
Catalogs ==
  { [i \in 1..n |-> Chunk(i, RowTexts[((i - 1) % Len(RowTexts)) + 1])] :
    n \in 1..MaxCatalog }
InitRetrieve ==
  /\ chunks \in Catalogs
  /\ rag_system = Construct(chunks)
  /\ alpha \in Alphas
  /\ call \in [stage : {"called"},
               dense : [DOMAIN chunks -> DenseRaw],
               bm25 : [DOMAIN chunks -> LexicalRaw],
               final_k : FinalKs]
  /\ returned = <<>>
  /\ cache = <<>>
  /\ messages = <<>>
  /\ sessions = {}
  /\ next_session = 1
  /\ result = NoResult
  /\ asked = [q \in Questions |-> NeverAsked]
  /\ n_asks = 0
  /\ pending = {}
  /\ running = Idle
Retrieve ==
  /\ call.stage = "called"
  /\ returned' \in hybrid_retrieve(chunks, alpha, alpha, call.dense, call.bm25,
                                   TOP_K_FAISS, call.final_k)
  /\ call' = [call EXCEPT !.stage = "returned"]
  /\ UNCHANGED <<chunks, rag_system, alpha, cache, messages, sessions,
                 next_session, result, asked, n_asks, pending, running>>
NextRetrieve == Retrieve
SpecRetrieve == InitRetrieve /\ [][NextRetrieve]_vars

\* ---------------------------------------------------------------- claims
Answered == result.op = "ask" /\ result.status = 200
Missed == Answered /\ result.path # "hit"
LastTwoMessages(session_id, question, answer) ==
  /\ Len(messages) >= 2
  /\ messages[Len(messages) - 1] = Message(session_id, "user", <<Line(question)>>)
  /\ messages[Len(messages)] = Message(session_id, "assistant", answer)
\* The fused score of the entry r is a * dense_norm + (1 - a) * lexical_norm
FusedWith(a, r) ==
  r.score = Add32(Mul32(Float32(a, 10), r.faiss_score),
                  Mul32(Float32(10 - a, 10), r.bm25_score))

\* C1: on a cache miss (or with use_cache false), when hybrid_retrieve returned
\* the empty list or a first result of fused score below 0.12, call_ollama was
\* not invoked and the response is "Data not found" with no sources.
C1_GateRefuses ==
  (Missed /\ (IF result.retrieved = <<>> THEN TRUE
              ELSE result.retrieved[1].score < Ceil32(12, 100)))
    => /\ ~result.ollama_called
       /\ result.answer = <<Line("Data not found")>>
       /\ result.sources = <<>>
\* a refusal of a non-empty list: its first fused score is positive and below 0.12
C1_Witness ==
  /\ Missed /\ result.path = "gated"
  /\ result.retrieved # <<>>
  /\ ~result.ollama_called

\* C2 as stated: a question asked twice or more with caching, and never without,
\* was retrieved once and generated once, and the cached call returned the
\* first call's answer.
C2_Original ==
  \A q \in Questions :
    (asked[q].cached_asks >= 2 /\ ~asked[q].bypassed)
      => /\ asked[q].retrievals = 1
         /\ asked[q].generations = 1
         /\ (Answered /\ result.question = q) => result.answer = asked[q].first_answer
\* C2, amended: for a question not yet in the cache, retrieval ran once and
\* generation at most once, exactly once unless the first call was refused by
\* the gate (then call_ollama never ran); for a question the database already
\* held an answer to, neither ran.  The cached call returned the first call's
\* answer and took the cache path.
C2_CacheRoundTrip ==
  \A q \in Questions :
    (asked[q].cached_asks >= 2 /\ ~asked[q].bypassed)
      => /\ asked[q].retrievals = (IF asked[q].first_path = "hit" THEN 0 ELSE 1)
         /\ asked[q].generations =
              (IF asked[q].first_path \in {"hit", "gated"} THEN 0 ELSE 1)
         /\ (Answered /\ result.question = q)
              => (result.answer = asked[q].first_answer /\ result.from_cache)
\* the second cached call of a question whose first call ended in the error
\* string, after another question was asked and the weight changed in between
C2_Witness ==
  /\ Answered /\ result.from_cache
  /\ asked[result.question].cached_asks = 2
  /\ ~asked[result.question].bypassed
  /\ asked[result.question].first_path = "failed"
  /\ alpha # DEFAULT_ALPHA
  /\ Len(messages) = 6
  /\ messages[1].message = <<Line(result.question)>>
  /\ messages[3].message # <<Line(result.question)>>
  /\ messages[5].message = <<Line(result.question)>>

\* C3: a completed ask_question call appends the user question and then the
\* assistant answer it returns to the session's log, on every path; no other
\* step appends a message.
C3_TwoMessages ==
  [][IF result'.op = "ask" /\ result'.status = 200
     THEN messages' = messages
            \o <<Message(result'.session_id, "user", <<Line(result'.question)>>),
                 Message(result'.session_id, "assistant", result'.answer)>>
     ELSE Len(messages') <= Len(messages)]_vars
\* a cache hit logged after an earlier answer
C3_Witness ==
  /\ Answered /\ result.path = "hit"
  /\ Len(messages) = 4
  /\ LastTwoMessages(result.session_id, result.question, result.answer)

\* C4: no entry of the list hybrid_retrieve returned has a fused score <= 0.
C4_PositiveScores ==
  call.stage = "returned"
    => \A i \in DOMAIN returned : returned[i].score > 0
\* a list returned with a candidate of the top final_k dropped
C4_Witness ==
  /\ call.stage = "returned"
  /\ returned # <<>>
  /\ Len(returned) < Min2(call.final_k, Len(chunks))

\* C5: a weight outside [0,1] is rejected and leaves self.alpha as it was, one
\* inside replaces it; a query is fused with the live weight.
C5_AlphaGuard ==
  /\ result.op = "set_alpha"
       => IF 0 <= result.value /\ result.value <= 10
          THEN result.status = 200 /\ alpha = result.value
          ELSE result.status = 400 /\ alpha = result.alpha_before
  /\ Missed
       => /\ alpha = result.alpha_before
          /\ \A i \in DOMAIN result.retrieved : FusedWith(alpha, result.retrieved[i])
\* 1.5 rejected while the weight is 0.1, set by an earlier request
C5_Witness ==
  /\ result.op = "set_alpha" /\ result.value = 15 /\ result.status = 400
  /\ alpha = 1

\* C6: when the completion service raised, the call still answers: a non-empty
\* error text, logged, cached and returned with the sources.
C6_FailureAnswered ==
  (Answered /\ result.path = "failed")
    => /\ result.answer # <<>>
       /\ \A i \in DOMAIN result.answer : ~Blank(result.answer[i])
       /\ LastTwoMessages(result.session_id, result.question, result.answer)
       /\ result.question \in DOMAIN cache
       /\ cache[result.question] = result.answer
       /\ ~result.from_cache
       /\ result.sources = Prefix(result.retrieved, 5)
C6_Witness ==
  /\ Answered /\ result.path = "failed" /\ result.ollama_called
  /\ result.sources # <<>>

\* C7: with /api/alpha requests arriving while a query is in flight, the two
\* reads of self.alpha in a fusion give one value, and every fused score is
\* a * dense_norm + (1 - a) * lexical_norm for that one a in [0,1].
C7_OneAlpha ==
  /\ running.pc = "fused"
       => (running.alpha_left = running.alpha_right
           /\ running.alpha_left \in 0..10)
  /\ Missed
       => \E a \in 0..10 :
            \A i \in DOMAIN result.retrieved : FusedWith(a, result.retrieved[i])
\* a fusion of both terms completed while a request for another weight waited
C7_Witness ==
  /\ Missed /\ result.overlapped
  /\ \E i \in DOMAIN result.retrieved :
       result.retrieved[i].faiss_score > 0 /\ result.retrieved[i].bm25_score > 0

\* C8 as stated: the context of the prompt holds each top-5 chunk's full text
\* (line breaks replaced, stripped); only the payload's preview is truncated.
C8_Original ==
  (Answered /\ result.ollama_called)
    => /\ Len(result.context) = Len(result.sources)
       /\ \A i \in DOMAIN result.context :
            result.context[i].content
              = Strip(ReplaceNewlines(chunks[result.sources[i].idx].text))
\* C8, amended: the context holds the same preview as the payload, the first
\* 300 characters of the chunk followed by "...", line breaks replaced and
\* stripped.  A chunk longer than 300 characters is cut in the prompt as in
\* the payload; a chunk of 300 characters or fewer is there whole, followed
\* by "...".
C8_PromptUsesPreview ==
  (Answered /\ result.ollama_called)
    => /\ Len(result.context) = Len(result.sources)
       /\ \A i \in DOMAIN result.context :
            LET full == chunks[result.sources[i].idx].text
            IN  /\ result.sources[i].text = Cat(Slice(full, 300), <<Run(".", 3)>>)
                /\ result.context[i].content
                     = Strip(ReplaceNewlines(result.sources[i].text))
                /\ TLen(result.context[i].content) <= 303
                /\ TLen(full) <= 300
                     => result.context[i].content
                          = Strip(ReplaceNewlines(Cat(full, <<Run(".", 3)>>)))
                /\ TLen(full) > 300
                     => result.context[i].content
                          = Strip(ReplaceNewlines(Cat(Slice(full, 300), <<Run(".", 3)>>)))
\* a prompt built of a chunk longer than 300 characters, cut, and of a chunk
\* that fits in the preview, whole
C8_Witness ==
  /\ Answered /\ result.ollama_called
  /\ \E i, j \in DOMAIN result.context :
       /\ TLen(chunks[result.sources[i].idx].text) > 300
       /\ result.context[i].content
            # Strip(ReplaceNewlines(chunks[result.sources[i].idx].text))
       /\ TLen(chunks[result.sources[j].idx].text) <= 300
       /\ TLen(result.context[j].content) = TLen(chunks[result.sources[j].idx].text) + 3

\* C9: with no chunk loaded, every question is refused with "Data not found".
C9_EmptyCorpusRefused ==
  (Len(chunks) = 0 /\ result.op = "ask")
    => (result.status = 200 /\ result.answer = <<Line("Data not found")>>)

\* The fused scores of the call, by position
CallScores ==
  Combined(alpha, alpha, FaissScores(call.dense, TOP_K_FAISS), call.bm25)
Positions(list) == {list[i].idx : i \in DOMAIN list}
\* C10 as stated: at most final_k entries, the final_k chunks of highest
\* fused score, by fused score descending, a tie going to the lower position
\* both in the selection and in the order.
C10_Original ==
  call.stage = "returned"
    => /\ Len(returned) <= call.final_k
       /\ \A i, j \in DOMAIN returned :
            i < j => \/ returned[i].score > returned[j].score
                     \/ /\ returned[i].score = returned[j].score
                        /\ returned[i].idx < returned[j].idx
       /\ \A i \in DOMAIN returned, c \in DOMAIN chunks \ Positions(returned) :
            \/ returned[i].score > CallScores[c]
            \/ returned[i].score = CallScores[c] /\ returned[i].idx < c
\* C10, amended: at most final_k entries, each another chunk with its own
\* positive fused score, in descending order of fused score; no chunk left out
\* scores higher than one returned, and when fewer than final_k are returned
\* every chunk left out scores <= 0.  Chunks of equal fused score come in
\* any order, and any of them is chosen at the cut.
C10_TopByScore ==
  call.stage = "returned"
    => /\ Len(returned) <= call.final_k
       /\ \A i \in DOMAIN returned :
            /\ returned[i].idx \in DOMAIN chunks
            /\ returned[i].score = CallScores[returned[i].idx]
            /\ returned[i].score > 0
       /\ \A i, j \in DOMAIN returned :
            i < j => /\ returned[i].score >= returned[j].score
                     /\ returned[i].idx # returned[j].idx
       /\ \A i \in DOMAIN returned, c \in DOMAIN chunks \ Positions(returned) :
            returned[i].score >= CallScores[c]
       /\ Len(returned) < call.final_k
            => \A c \in DOMAIN chunks \ Positions(returned) : CallScores[c] <= 0
\* a list cut at final_k in which two chunks of equal score come in the
\* reverse of loader order
C10_Witness ==
  /\ call.stage = "returned"
  /\ Len(returned) = call.final_k
  /\ Len(chunks) > call.final_k
  /\ \E i, j \in DOMAIN returned :
       i < j /\ returned[i].score = returned[j].score
             /\ returned[i].idx > returned[j].idx


\* Raw scores that differ somewhere, that differ everywhere, and that lie at
\* least 1e-12 apart somewhere
NotAllEqual(arr) == \E i, j \in DOMAIN arr : arr[i] # arr[j]
PairwiseDistinct(arr) == \A i, j \in DOMAIN arr : i # j => arr[i] # arr[j]
Apart(arr) == \E i, j \in DOMAIN arr : arr[i] - arr[j] >= 2
\* The list has a first entry, of fused score at least the float32 x
TopAtLeast(list, x) == list # <<>> /\ list[1].score >= x
\* The dense scores that hybrid_retrieve normalizes
CallDense == FaissScores(call.dense, TOP_K_FAISS)
\* C11 as stated: raw dense scores that are not all equal put the top fused
\* score at alpha or above, raw lexical scores that are not all equal at
\* 1 - alpha or above; at alpha 0.6, two or more chunks of distinct dense
\* scores are never refused by the 0.12 gate.
C11_Original ==
  call.stage = "returned"
    => /\ (NotAllEqual(call.dense) /\ alpha > 0)
            => TopAtLeast(returned, Ceil32(alpha, 10))
       /\ (NotAllEqual(call.bm25) /\ alpha < 10)
            => TopAtLeast(returned, Ceil32(10 - alpha, 10))
       /\ (alpha = 6 /\ Len(chunks) >= 2 /\ PairwiseDistinct(call.dense))
            => ~Gate(returned)
\* C11, amended: the floor needs scores at least 1e-12 apart, and it is the
\* weight as float32 holds it.  Dense scores that far apart put the top fused
\* score at float32(alpha) or above (a list is returned when alpha > 0),
\* lexical scores that far apart at float32(1 - alpha) or above; at alpha 0.6
\* such dense scores always pass the 0.12 gate.  When the dense and the
\* lexical scores are both closer than 1e-12, equal or not, nothing is
\* returned.
C11_FloorAboveTolerance ==
  call.stage = "returned"
    => /\ (Apart(CallDense) /\ alpha > 0)
            => TopAtLeast(returned, Float32(alpha, 10))
       /\ (Apart(call.bm25) /\ alpha < 10)
            => TopAtLeast(returned, Float32(10 - alpha, 10))
       /\ (alpha = 6 /\ Apart(CallDense)) => ~Gate(returned)
       /\ (~Apart(CallDense) /\ ~Apart(call.bm25)) => returned = <<>>
\* at alpha 0.6 a query whose best dense match has no lexical match at all:
\* the first entry scores float32(0.6) and passes the gate
C11_Witness ==
  /\ call.stage = "returned"
  /\ alpha = 6 /\ Len(chunks) >= 2
  /\ Apart(CallDense) /\ Apart(call.bm25)
  /\ returned # <<>>
  /\ returned[1].score = Float32(6, 10)
  /\ returned[1].bm25_score = 0
  /\ ~Gate(returned)
====
